---- MODULE Spec2Model ----
(***************************************************************************)
(* HashMap<KeyType, ValueType, Hash> of src/hash_map_2.h (the same code,   *)
(* under other member names, is in src/hash_map_2version.h and             *)
(* src/hashtbl.h): separate chaining over two tables.  value_store_ keeps  *)
(* the (key, value) pairs densely, hashed_pointers_ keeps, per bucket, the *)
(* positions of value_store_ whose key hashes to that bucket.              *)
(*                                                                         *)
(* Positions and bucket numbers are 0-based as in the code; TLA+ sequences *)
(* are 1-based, so value_store_[x] of the code is value_store[x + 1] here. *)
(***************************************************************************)
EXTENDS Integers, Sequences, FiniteSets, TLC

\* ---------------------------------------------------------------- bounds
NumKeys == 3
NumVals == 2
HashSpan == 3
\* longest sequence of calls after a clear() that is replayed on a fresh
\* container, and longest source sequence handed to a constructor
MaxScript == 3
MaxSource == 3
\* the widths in bits of int and of size_t, scaled down from 32 and 64 with
\* int kept the narrower of the two
IntBits == 4
SizeBits == 6

\* ------------------------------------------------------ program constants
INCREMENT_FACTOR_ == 2
REALLOCATION_FACTOR_ == 3
\* ValueType(): the value-initialised value operator[] stores for a new key
DefaultValue == 0

Keys == 0 .. (NumKeys - 1)
Values == 0 .. (NumVals - 1)
HashValues == 0 .. (HashSpan - 1)

VARIABLES
    value_store,      \* std::vector<std::pair<KeyType, ValueType>>
    hashed_pointers,  \* std::vector<std::vector<size_t>>
    hasher,           \* the Hash object: a deterministic function of the key
    last,             \* the call that returned last: its arguments and outcome
    amap,             \* abstract first-wins map the container is compared with
    inserted,         \* successful insert() calls made on the freshly
                      \* constructed container and nothing else, or NumKeys + 1
    script,           \* the insert/erase calls made since the last clear(),
                      \* while nothing else was called (ok), else not ok
    source,           \* the pairs handed to the range / initializer-list
                      \* constructor; empty for the default constructor
    frame             \* the locals and the position of the call that is
                      \* running, where calls are followed loop step by loop
                      \* step (SpecLoops); idle elsewhere

vars == <<value_store, hashed_pointers, hasher, last, amap, inserted,
          script, source, frame>>

\* ---------------------------------------------------------------- helpers
Min(S) == CHOOSE x \in S : \A y \in S : x <= y

Pair(k, v) == [first |-> k, second |-> v]

\* size()
Size(vs) == Len(vs)

\* hasher_(key) % n
BucketOf(key, n) == hasher[key] % n

\* find() returning after it compared the bucket's first position only
FindIn_FirstOnly(vs, hp, key) ==
    LET b == hp[BucketOf(key, Len(hp)) + 1]
    IN  IF Len(b) >= 1 /\ b[1] < Len(vs) /\ vs[b[1] + 1].first = key
        THEN b[1] ELSE Len(vs)

\* find() returning the bucket's first position without comparing its key
FindIn_NoEqualityCheck(vs, hp, key) ==
    LET b == hp[BucketOf(key, Len(hp)) + 1]
    IN  IF Len(b) >= 1 /\ b[1] < Len(vs) THEN b[1] ELSE Len(vs)

\* find(): scans the bucket hasher_(key) % hashed_pointers_.size() front to
\* back and returns the first position whose key equals key, else size().
FindIn(vs, hp, key) ==
    LET b == hp[BucketOf(key, Len(hp)) + 1]
        hits == {i \in 1 .. Len(b) : b[i] < Len(vs) /\ vs[b[i] + 1].first = key}
    IN  IF hits = {} THEN Len(vs) ELSE b[Min(hits)]

\* the positions 0 .. n-1 in increasing order
Positions(n) == [i \in 1 .. n |-> i - 1]

\* int cur_position = hasher_(value_store_[i].first) % new_size
CurPosition(vs, i, new_size) == hasher[vs[i + 1].first] % new_size

\* the rebuild loop stopping one position short (i < size - 1)
Rebuild_SkipLast(vs, new_size) ==
    [c \in 1 .. new_size |->
        SelectSeq(Positions(Len(vs) - 1),
                  LAMBDA i : CurPosition(vs, i, new_size) = c - 1)]

\* the loop of check_and_reallocate(): new_size empty buckets, then every
\* position i = 0 .. size-1 is pushed back onto bucket cur_position
Rebuild(vs, new_size) ==
    [c \in 1 .. new_size |->
        SelectSeq(Positions(Len(vs)),
                  LAMBDA i : CurPosition(vs, i, new_size) = c - 1)]

\* the two factors of the threshold exchanged
CheckAndReallocate_Swapped(vs, hp) ==
    IF INCREMENT_FACTOR_ * Len(vs) >= Len(hp) * REALLOCATION_FACTOR_
    THEN Rebuild(vs, Len(hp) * INCREMENT_FACTOR_)
    ELSE hp

\* the table growing by INCREMENT_FACTOR_ buckets instead of that many times
CheckAndReallocate_AddTwo(vs, hp) ==
    IF REALLOCATION_FACTOR_ * Len(vs) >= Len(hp) * INCREMENT_FACTOR_
    THEN Rebuild(vs, Len(hp) + INCREMENT_FACTOR_)
    ELSE hp

\* check_and_reallocate() without its test: the table is rebuilt every time
CheckAndReallocate_Always(vs, hp) == Rebuild(vs, Len(hp) * INCREMENT_FACTOR_)

\* the table growing by the factor of the threshold's other side
CheckAndReallocate_WrongFactor(vs, hp) ==
    IF REALLOCATION_FACTOR_ * Len(vs) >= Len(hp) * INCREMENT_FACTOR_
    THEN Rebuild(vs, Len(hp) * REALLOCATION_FACTOR_)
    ELSE hp

\* check_and_reallocate()
CheckAndReallocate(vs, hp) ==
    IF REALLOCATION_FACTOR_ * Len(vs) >= Len(hp) * INCREMENT_FACTOR_
    THEN Rebuild(vs, Len(hp) * INCREMENT_FACTOR_)
    ELSE hp

\* the new pair put in front of the store instead of behind it
InsertStore_Front(vs, k, v) == <<Pair(k, v)>> \o vs

\* insert(): value_store_.push_back(key_value)
InsertStore(vs, k, v) == Append(vs, Pair(k, v))

\* insert(): push the new position onto its bucket, then check_and_reallocate
InsertBuckets(vs1, hp, k) ==
    LET c == BucketOf(k, Len(hp)) + 1
        hp1 == [hp EXCEPT ![c] = Append(@, Len(vs1) - 1)]
    IN  CheckAndReallocate(vs1, hp1)

\* the swap without the pop_back()
EraseStore_NoPop(vs, index0) ==
    [vs EXCEPT ![index0 + 1] = vs[Len(vs)], ![Len(vs)] = vs[index0 + 1]]

\* the pop_back() without the swap
EraseStore_PopOnly(vs, index0) == SubSeq(vs, 1, Len(vs) - 1)

\* value_store_.erase(begin() + index0): later pairs move down by one
EraseStore_ShiftDown(vs, index0) ==
    [i \in 1 .. (Len(vs) - 1) |-> IF i < index0 + 1 THEN vs[i] ELSE vs[i + 1]]

\* erase(): swap(value_store_[index0], value_store_.back()); pop_back()
EraseStore(vs, index0) ==
    [i \in 1 .. (Len(vs) - 1) |-> IF i = index0 + 1 THEN vs[Len(vs)] ELSE vs[i]]

\* the first loop without its pop_back()
RemoveIndex_NoPop(b, index0) ==
    LET hits == {i \in 1 .. Len(b) : b[i] = index0}
    IN  IF hits = {} THEN b
        ELSE [b EXCEPT ![Min(hits)] = b[Len(b)], ![Len(b)] = index0]

\* the first loop popping the back without the swap
RemoveIndex_PopBackOnly(b, index0) ==
    IF \E i \in 1 .. Len(b) : b[i] = index0
    THEN SubSeq(b, 1, Len(b) - 1) ELSE b

\* erase(), first loop: the first x == index0 is swapped with the bucket's
\* back, the back is popped
RemoveIndex(b, index0) ==
    LET hits == {i \in 1 .. Len(b) : b[i] = index0}
    IN  IF hits = {} THEN b
        ELSE [j \in 1 .. (Len(b) - 1) |->
                 IF j = Min(hits) THEN b[Len(b)] ELSE b[j]]

\* the second loop without its test x == index1
RewriteIndex_NoGuard(b, index1, index0) ==
    IF b = <<>> THEN b ELSE [b EXCEPT ![1] = index0]

\* erase() without its second loop
RewriteIndex_Skip(b, index1, index0) == b

\* erase(), second loop: the first x == index1 becomes index0
RewriteIndex(b, index1, index0) ==
    LET hits == {i \in 1 .. Len(b) : b[i] = index1}
    IN  IF hits = {} THEN b ELSE [b EXCEPT ![Min(hits)] = index0]

\* erase() that goes back to a single bucket once the store is empty
EraseBuckets_ResetWhenEmpty(hp, hash0, hash1, index0, index1) ==
    IF index1 = 0 THEN <<(<<>>)>>
    ELSE LET hp1 == [hp EXCEPT ![hash0 + 1] = RemoveIndex(@, index0)]
         IN  [hp1 EXCEPT ![hash1 + 1] = RewriteIndex(@, index1, index0)]

\* erase() whose second loop is skipped when both keys share a bucket
EraseBuckets_SkipSameBucket(hp, hash0, hash1, index0, index1) ==
    LET hp1 == [hp EXCEPT ![hash0 + 1] = RemoveIndex(@, index0)]
    IN  IF hash0 = hash1 THEN hp1
        ELSE [hp1 EXCEPT ![hash1 + 1] = RewriteIndex(@, index1, index0)]

\* erase(): the two loops over hashed_pointers_[hash0] and [hash1]
EraseBuckets(hp, hash0, hash1, index0, index1) ==
    LET hp1 == [hp EXCEPT ![hash0 + 1] = RemoveIndex(@, index0)]
    IN  [hp1 EXCEPT ![hash1 + 1] = RewriteIndex(@, index1, index0)]

Call(op, k, v, hit, ret, threw) ==
    [op |-> op, key |-> k, val |-> v, hit |-> hit, ret |-> ret, threw |-> threw]

\* no call is running; op names the call that returned last
IdleFrame(op) ==
    [pc |-> "idle", op |-> op, key |-> 0, val |-> 0, cont |-> "none",
     x |-> 0, ret |-> 0, index0 |-> 0, index1 |-> 0, hash0 |-> 0, hash1 |-> 0,
     pre |-> <<>>]

\* ------------------------------------------------------------------ state
\* HashMap(const Hash& hasher = Hash()): no entries, one empty bucket
Init ==
    /\ value_store = <<>>
    /\ hashed_pointers = <<(<<>>)>>
    /\ hasher \in [Keys -> HashValues]
    /\ last = Call("construct", 0, 0, FALSE, 0, FALSE)
    /\ amap = <<>>
    /\ inserted = 0
    /\ script = [ok |-> FALSE, calls |-> <<>>]
    /\ source = <<>>
    /\ frame = IdleFrame("construct")

Present(k) == FindIn(value_store, hashed_pointers, k) # Size(value_store)

\* insert() assigning the value of a key it finds
Insert_Overwrite(k, v) ==
    LET hit == Present(k)
        vs1 == InsertStore(value_store, k, v)
        p == FindIn(value_store, hashed_pointers, k)
    IN  /\ value_store' = IF hit THEN [value_store EXCEPT ![p + 1].second = v]
                          ELSE vs1
        /\ hashed_pointers' =
               IF hit THEN hashed_pointers
               ELSE InsertBuckets(vs1, hashed_pointers, k)
        /\ last' = Call("insert", k, v, hit, 0, FALSE)
        /\ amap' = IF k \in DOMAIN amap THEN amap
                   ELSE [x \in DOMAIN amap \cup {k} |->
                            IF x = k THEN v ELSE amap[x]]
        /\ inserted' = IF ~hit /\ inserted <= NumKeys
                       THEN inserted + 1 ELSE NumKeys + 1
        /\ UNCHANGED hasher

\* insert(const std::pair<KeyType, ValueType>&)
Insert(k, v) ==
    LET hit == Present(k)
        vs1 == InsertStore(value_store, k, v)
    IN  /\ value_store' = IF hit THEN value_store ELSE vs1
        /\ hashed_pointers' =
               IF hit THEN hashed_pointers
               ELSE InsertBuckets(vs1, hashed_pointers, k)
        /\ last' = Call("insert", k, v, hit, 0, FALSE)
        /\ amap' = IF k \in DOMAIN amap THEN amap
                   ELSE [x \in DOMAIN amap \cup {k} |->
                            IF x = k THEN v ELSE amap[x]]
        /\ inserted' = IF ~hit /\ inserted <= NumKeys
                       THEN inserted + 1 ELSE NumKeys + 1
        /\ UNCHANGED hasher

\* erase() that tests the container for emptiness, not the key for presence
Erase_GuardEmptyOnly(k) ==
    LET hit == value_store # <<>>
        index0 == FindIn(value_store, hashed_pointers, k)
        hash0 == BucketOf(k, Len(hashed_pointers))
        hash1 == BucketOf(value_store[Len(value_store)].first,
                          Len(hashed_pointers))
        index1 == Size(value_store) - 1
    IN  /\ value_store' = IF hit THEN EraseStore(value_store, index0)
                          ELSE value_store
        /\ hashed_pointers' =
               IF hit
               THEN EraseBuckets(hashed_pointers, hash0, hash1, index0, index1)
               ELSE hashed_pointers
        /\ last' = Call("erase", k, 0, Present(k), IF hit THEN index0 ELSE 0,
                        FALSE)
        /\ amap' = [x \in DOMAIN amap \ {k} |-> amap[x]]
        /\ inserted' = NumKeys + 1
        /\ UNCHANGED hasher

\* erase(const KeyType&); last.ret records index0, the position erased
Erase(k) ==
    LET hit == Present(k)
        index0 == FindIn(value_store, hashed_pointers, k)
        hash0 == BucketOf(k, Len(hashed_pointers))
        hash1 == BucketOf(value_store[Len(value_store)].first,
                          Len(hashed_pointers))
        index1 == Size(value_store) - 1
    IN  /\ value_store' = IF hit THEN EraseStore(value_store, index0)
                          ELSE value_store
        /\ hashed_pointers' =
               IF hit
               THEN EraseBuckets(hashed_pointers, hash0, hash1, index0, index1)
               ELSE hashed_pointers
        /\ last' = Call("erase", k, 0, hit, IF hit THEN index0 ELSE 0, FALSE)
        /\ amap' = [x \in DOMAIN amap \ {k} |-> amap[x]]
        /\ inserted' = NumKeys + 1
        /\ UNCHANGED hasher

\* find(const KeyType&): the iterator's index_ is the result
Find(k) ==
    /\ last' = Call("find", k, 0, Present(k),
                    FindIn(value_store, hashed_pointers, k), FALSE)
    /\ inserted' = NumKeys + 1
    /\ UNCHANGED <<value_store, hashed_pointers, hasher, amap>>

\* what dereferencing find(key) and reading .second can give: the stored
\* value, or, were find(key) the end iterator, a read past the store that
\* may yield any value
SecondAt(vs, hp, k) ==
    LET p == FindIn(vs, hp, k)
    IN  IF p < Len(vs) THEN {vs[p + 1].second} ELSE Values

\* at() storing and returning a default value for a key it does not find
At_DefaultOnMiss(k) ==
    LET hit == Present(k)
        vs1 == IF hit THEN value_store
               ELSE InsertStore(value_store, k, DefaultValue)
        hp1 == IF hit THEN hashed_pointers
               ELSE InsertBuckets(vs1, hashed_pointers, k)
    IN  /\ value_store' = vs1
        /\ hashed_pointers' = hp1
        /\ \E r \in SecondAt(vs1, hp1, k) :
               last' = Call("at", k, 0, hit, r, FALSE)
        /\ amap' = IF k \in DOMAIN amap THEN amap
                   ELSE [x \in DOMAIN amap \cup {k} |->
                            IF x = k THEN DefaultValue ELSE amap[x]]
        /\ inserted' = NumKeys + 1
        /\ UNCHANGED hasher

\* at(const KeyType&) const: throws std::out_of_range when find(key) == end()
At(k) ==
    LET hit == Present(k)
    IN  /\ \E r \in IF hit THEN SecondAt(value_store, hashed_pointers, k)
                    ELSE {0} :
               last' = Call("at", k, 0, hit, r, ~hit)
        /\ inserted' = NumKeys + 1
        /\ UNCHANGED <<value_store, hashed_pointers, hasher, amap>>

\* operator[] handing back a default value without storing the new key
Subscript_NoInsert(k) ==
    LET hit == Present(k)
    IN  /\ \E r \in IF hit THEN SecondAt(value_store, hashed_pointers, k)
                    ELSE {DefaultValue} :
               last' = Call("subscript", k, 0, hit, r, FALSE)
        /\ amap' = IF k \in DOMAIN amap THEN amap
                   ELSE [x \in DOMAIN amap \cup {k} |->
                            IF x = k THEN DefaultValue ELSE amap[x]]
        /\ inserted' = NumKeys + 1
        /\ UNCHANGED <<value_store, hashed_pointers, hasher>>

\* operator[](const KeyType&), the value read through the returned reference
Subscript(k) ==
    LET hit == Present(k)
        vs1 == IF hit THEN value_store
               ELSE InsertStore(value_store, k, DefaultValue)
        hp1 == IF hit THEN hashed_pointers
               ELSE InsertBuckets(vs1, hashed_pointers, k)
    IN  /\ value_store' = vs1
        /\ hashed_pointers' = hp1
        /\ \E r \in SecondAt(vs1, hp1, k) :
               last' = Call("subscript", k, 0, hit, r, FALSE)
        /\ amap' = IF k \in DOMAIN amap THEN amap
                   ELSE [x \in DOMAIN amap \cup {k} |->
                            IF x = k THEN DefaultValue ELSE amap[x]]
        /\ inserted' = NumKeys + 1
        /\ UNCHANGED hasher

\* map[k] = v done as erase(k) followed by insert({k, v})
SubscriptAssign_Reinsert(k, v) ==
    LET hit == Present(k)
        n == Len(hashed_pointers)
        index0 == FindIn(value_store, hashed_pointers, k)
        vs0 == IF hit THEN EraseStore(value_store, index0) ELSE value_store
        hp0 == IF hit
               THEN EraseBuckets(hashed_pointers, BucketOf(k, n),
                                 BucketOf(value_store[Len(value_store)].first,
                                          n),
                                 index0, Size(value_store) - 1)
               ELSE hashed_pointers
        vs1 == InsertStore(vs0, k, v)
    IN  /\ value_store' = vs1
        /\ hashed_pointers' = InsertBuckets(vs1, hp0, k)
        /\ last' = Call("assign", k, v, hit, 0, FALSE)
        /\ amap' = [x \in DOMAIN amap \cup {k} |-> IF x = k THEN v ELSE amap[x]]
        /\ inserted' = NumKeys + 1
        /\ UNCHANGED hasher

\* map[k] = v: operator[](k), then a write through the returned reference
SubscriptAssign(k, v) ==
    LET hit == Present(k)
        vs1 == IF hit THEN value_store
               ELSE InsertStore(value_store, k, DefaultValue)
        hp1 == IF hit THEN hashed_pointers
               ELSE InsertBuckets(vs1, hashed_pointers, k)
        p == FindIn(vs1, hp1, k)
    IN  /\ value_store' = [vs1 EXCEPT ![p + 1].second = v]
        /\ hashed_pointers' = hp1
        /\ last' = Call("assign", k, v, hit, 0, FALSE)
        /\ amap' = [x \in DOMAIN amap \cup {k} |-> IF x = k THEN v ELSE amap[x]]
        /\ inserted' = NumKeys + 1
        /\ UNCHANGED hasher

\* (*it).second = v or it->second = v through a non-const iterator it whose
\* index_ is index, below size(); last.ret records index
IteratorAssign(index, v) ==
    /\ index < Size(value_store)
    /\ value_store' = [value_store EXCEPT ![index + 1].second = v]
    /\ last' = Call("iter_assign", value_store[index + 1].first, v, TRUE,
                    index, FALSE)
    /\ amap' = [x \in DOMAIN amap \cup {value_store[index + 1].first} |->
                    IF x = value_store[index + 1].first THEN v ELSE amap[x]]
    /\ inserted' = NumKeys + 1
    /\ UNCHANGED <<hashed_pointers, hasher>>

\* clear() without hashed_pointers_.clear(): resize(1) keeps the first bucket
Clear_KeepFirstBucket ==
    /\ value_store' = <<>>
    /\ hashed_pointers' = <<hashed_pointers[1]>>
    /\ last' = Call("clear", 0, 0, FALSE, 0, FALSE)
    /\ amap' = <<>>
    /\ inserted' = NumKeys + 1
    /\ UNCHANGED hasher

\* clear(): value_store_.clear(); hashed_pointers_.clear(); resize(1)
Clear ==
    /\ value_store' = <<>>
    /\ hashed_pointers' = <<(<<>>)>>
    /\ last' = Call("clear", 0, 0, FALSE, 0, FALSE)
    /\ amap' = <<>>
    /\ inserted' = NumKeys + 1
    /\ UNCHANGED hasher

\* insert() as a function of the container, assigning the value of a key
\* it finds
InsertStep_Overwrite(st, k, v) ==
    LET p == FindIn(st[1], st[2], k)
    IN  IF p # Size(st[1]) THEN <<[st[1] EXCEPT ![p + 1].second = v], st[2]>>
        ELSE LET vs1 == InsertStore(st[1], k, v)
             IN  <<vs1, InsertBuckets(vs1, st[2], k)>>

\* insert() as a function of the container (value_store_, hashed_pointers_)
InsertStep(st, k, v) ==
    IF FindIn(st[1], st[2], k) # Size(st[1]) THEN st
    ELSE LET vs1 == InsertStore(st[1], k, v)
         IN  <<vs1, InsertBuckets(vs1, st[2], k)>>

\* erase() as a function of the container
EraseStep(st, k) ==
    LET index0 == FindIn(st[1], st[2], k)
    IN  IF index0 = Size(st[1]) THEN st
        ELSE <<EraseStore(st[1], index0),
               EraseBuckets(st[2],
                            BucketOf(k, Len(st[2])),
                            BucketOf(st[1][Len(st[1])].first, Len(st[2])),
                            index0, Size(st[1]) - 1)>>

\* the members of a default-constructed container
Fresh == <<(<<>>), <<(<<>>)>>>>

\* the calls of a script made one after the other on a fresh container
RECURSIVE Replay(_)
Replay(calls) ==
    IF calls = <<>> THEN Fresh
    ELSE LET c == calls[Len(calls)]
             st == Replay(SubSeq(calls, 1, Len(calls) - 1))
         IN  IF c.op = "insert" THEN InsertStep(st, c.key, c.val)
             ELSE EraseStep(st, c.key)

\* begin(): the iterator's index_
Begin == 0

\* end(): the iterator's index_
End(vs) == Len(vs)

\* operator*() of an iterator at index
Deref(vs, index) == vs[index + 1]

\* for (it = begin(); it != end(); ++it): the keys visited, in order
RECURSIVE IterateFrom(_, _)
IterateFrom(vs, index) ==
    IF index = End(vs) THEN <<>>
    ELSE <<Deref(vs, index).first>> \o IterateFrom(vs, index + 1)

\* for (; first != last; first++) insert(*first), and
\* for (auto elem : init_list) insert(elem): the pairs from number i on
RECURSIVE InsertAll(_, _, _)
InsertAll(st, src, i) ==
    IF i > Len(src) THEN st
    ELSE InsertAll(InsertStep(st, src[i].first, src[i].second), src, i + 1)

Pairs == [first : Keys, second : Values]

Sources == UNION {[1 .. n -> Pairs] : n \in 0 .. MaxSource}

\* the first-wins map of a sequence of pairs
FirstWins(src) ==
    [k \in {src[i].first : i \in 1 .. Len(src)} |->
        src[Min({i \in 1 .. Len(src) : src[i].first = k})].second]

\* the members as the constructors' initialiser lists leave them, before the
\* constructor body reads the source
InitRange ==
    /\ value_store = <<>>
    /\ hashed_pointers = <<(<<>>)>>
    /\ hasher \in [Keys -> HashValues]
    /\ last = Call("construct", 0, 0, FALSE, 0, FALSE)
    /\ amap = <<>>
    /\ inserted = 0
    /\ script = [ok |-> TRUE, calls |-> <<>>]
    /\ source \in Sources
    /\ frame = IdleFrame("construct")

Constructed(op) ==
    LET st == InsertAll(<<value_store, hashed_pointers>>, source, 1)
    IN  /\ last.op = "construct"
        /\ script.calls = <<>>
        /\ value_store' = st[1]
        /\ hashed_pointers' = st[2]
        /\ last' = Call(op, 0, 0, FALSE, 0, FALSE)
        /\ amap' = FirstWins(source)
        /\ inserted' = NumKeys + 1
        /\ UNCHANGED <<hasher, script, source, frame>>

\* HashMap(Forward_Iter first, Forward_Iter last, const Hash&)
RangeConstruct == Constructed("range")

\* HashMap(std::initializer_list<std::pair<KeyType, ValueType>>, const Hash&)
ListConstruct == Constructed("list")

\* the caller's own loop instead: a default-constructed container and one
\* insert() call per pair of the source, in order
InsertNext ==
    LET n == Len(script.calls)
    IN  /\ last.op \in {"construct", "insert"}
        /\ n < Len(source)
        /\ Insert(source[n + 1].first, source[n + 1].second)
        /\ script' = [script EXCEPT !.calls =
                          Append(@, [op |-> "insert",
                                     key |-> source[n + 1].first,
                                     val |-> source[n + 1].second])]
        /\ UNCHANGED <<source, frame>>

NextRange == RangeConstruct \/ ListConstruct \/ InsertNext

SpecRange == InitRange /\ [][NextRange]_vars

\* bookkeeping of script for a call c that is replayed, and for any other
Scripted(c) ==
    /\ script' = IF script.ok /\ Len(script.calls) < MaxScript
                 THEN [script EXCEPT !.calls = Append(@, c)]
                 ELSE [ok |-> FALSE, calls |-> <<>>]
    /\ UNCHANGED <<source, frame>>

Unscripted ==
    /\ script' = [ok |-> FALSE, calls |-> <<>>]
    /\ UNCHANGED <<source, frame>>

Next ==
    \/ \E k \in Keys, v \in Values :
           Insert(k, v) /\ Scripted([op |-> "insert", key |-> k, val |-> v])
    \/ \E k \in Keys :
           Erase(k) /\ Scripted([op |-> "erase", key |-> k, val |-> 0])
    \/ \E k \in Keys : Find(k) /\ Unscripted
    \/ \E k \in Keys : At(k) /\ Unscripted
    \/ \E k \in Keys : Subscript(k) /\ Unscripted
    \/ \E k \in Keys, v \in Values : SubscriptAssign(k, v) /\ Unscripted
    \/ \E index \in 0 .. (NumKeys - 1), v \in Values :
           IteratorAssign(index, v) /\ Unscripted
    \/ Clear /\ script' = [ok |-> TRUE, calls |-> <<>>]
             /\ UNCHANGED <<source, frame>>

Spec == Init /\ [][Next]_vars

\* ------------------------------------------------------------- vocabulary
size == Len(value_store)
bucket_count == Len(hashed_pointers)
KeyAt(p) == value_store[p + 1].first
InStore(k) == \E p \in 0 .. (size - 1) : KeyAt(p) = k
StoredValue(k) ==
    value_store[(CHOOSE p \in 0 .. (size - 1) : KeyAt(p) = k) + 1].second
\* the places (bucket, slot) of the Bucket Index that hold position p
Places(p) ==
    UNION {{<<c, i>> : i \in {j \in 1 .. Len(hashed_pointers[c]) :
                                 hashed_pointers[c][j] = p}} :
           c \in 1 .. bucket_count}
RECURSIVE SumLen(_, _)
SumLen(hp, n) == IF n = 0 THEN 0 ELSE Len(hp[n]) + SumLen(hp, n - 1)

\* C1: after every public operation, every position p < size is held by
\* exactly one slot of exactly one bucket, that bucket is
\* hash(key[p]) mod bucket_count, and no bucket holds a position >= size.
BucketIndexExact ==
    /\ \A p \in 0 .. (size - 1) :
           /\ Cardinality(Places(p)) = 1
           /\ \A pl \in Places(p) : pl[1] = BucketOf(KeyAt(p), bucket_count) + 1
    /\ \A c \in 1 .. bucket_count : \A i \in 1 .. Len(hashed_pointers[c]) :
           hashed_pointers[c][i] < size

\* an erase that moved the last entry into the gap, in a rebuilt index
BucketIndexExactWitness ==
    /\ last.op = "erase" /\ last.hit
    /\ last.ret < size
    /\ size >= 2
    /\ bucket_count = 8

\* C2: no two positions of the Dense Store hold the same key.
NoDuplicateKeys ==
    \A p, q \in 0 .. (size - 1) : p # q => KeyAt(p) # KeyAt(q)

\* an insert of a key the store holds, next to a key with the same hash
NoDuplicateKeysWitness ==
    /\ last.op = "insert" /\ last.hit
    /\ size >= 2
    /\ \E p \in 0 .. (size - 1) :
           KeyAt(p) # last.key /\ hasher[KeyAt(p)] = hasher[last.key]

\* C3: bucket_count >= 1 and the bucket lengths sum to size().
BucketTotalIsSize ==
    /\ bucket_count >= 1
    /\ SumLen(hashed_pointers, bucket_count) = size

\* an erase out of a bucket that held two positions
BucketTotalIsSizeWitness ==
    /\ last.op = "erase" /\ last.hit
    /\ size >= 1
    /\ \E c \in 1 .. bucket_count : Len(hashed_pointers[c]) >= 2

\* C4: insert(K, V) of an absent K makes find(K) return a position p < size
\* whose entry is exactly (K, V), and grows size() by exactly 1, with or
\* without a rehash.
InsertRoundTrip ==
    [][\A k \in Keys, v \in Values :
           (Insert(k, v) /\ ~InStore(k)) =>
               LET p == FindIn(value_store', hashed_pointers', k)
               IN  /\ p < Len(value_store')
                   /\ value_store'[p + 1] = Pair(k, v)
                   /\ Len(value_store') = Len(value_store) + 1]_vars

\* the third insert in a row, which rehashed, with two keys hashing alike
InsertRoundTripWitness ==
    /\ last.op = "insert" /\ ~last.hit
    /\ inserted = 3 /\ bucket_count = 8
    /\ FindIn(value_store, hashed_pointers, last.key) = size - 1
    /\ \E j, k \in Keys : j # k /\ hasher[j] = hasher[k]

\* C5: insert(K, V2) of a present K changes nothing: Dense Store (so the
\* value of K), every bucket, bucket_count and size() stay as they were.
InsertPresentNoOp ==
    [][\A k \in Keys, v \in Values :
           (Insert(k, v) /\ InStore(k)) =>
               /\ value_store' = value_store
               /\ hashed_pointers' = hashed_pointers
               /\ StoredValue(k)' = StoredValue(k)]_vars

\* an insert of a present key with another value than the stored one
InsertPresentNoOpWitness ==
    /\ last.op = "insert" /\ last.hit
    /\ InStore(last.key)
    /\ StoredValue(last.key) # last.val

\* C6: after erase(K) find(K) is the end sentinel; size() drops by exactly
\* 1 when K was present and stays when K was absent.
EraseComplete ==
    [][\A k \in Keys :
           Erase(k) =>
               /\ FindIn(value_store', hashed_pointers', k) = Len(value_store')
               /\ ~InStore(k)'
               /\ Len(value_store') =
                      IF InStore(k) THEN Len(value_store) - 1
                      ELSE Len(value_store)]_vars

\* an erase of a present key that was not the last entry
EraseCompleteWitness ==
    /\ last.op = "erase" /\ last.hit
    /\ last.ret < size
    /\ ~InStore(last.key)

\* C7: find(K) succeeds iff K is in the abstract first-wins map, and the
\* value at the found position is the abstract map's value of K.
RefinesMap ==
    \A k \in Keys :
        LET p == FindIn(value_store, hashed_pointers, k)
        IN  /\ (p # size) <=> (k \in DOMAIN amap)
            /\ (p # size) => value_store[p + 1] = Pair(k, amap[k])

\* after an erase that moved an entry, two other keys are still found
RefinesMapWitness ==
    /\ last.op = "erase" /\ last.hit
    /\ last.ret < size
    /\ Cardinality(DOMAIN amap) = 2
    /\ \E k \in DOMAIN amap : amap[k] # DefaultValue

\* C8: 3 * size < 2 * bucket_count in every state between operations.
LoadFactorBound ==
    REALLOCATION_FACTOR_ * size < INCREMENT_FACTOR_ * bucket_count

\* an insert that filled the store
LoadFactorBoundWitness ==
    /\ last.op = "insert" /\ ~last.hit
    /\ size = NumKeys

\* C9 as claimed: three inserts into an empty container take bucket_count
\* 1 -> 1 -> 2 -> 4.
GrowthScenarioAsClaimed ==
    /\ inserted = 1 => bucket_count = 1
    /\ inserted = 2 => bucket_count = 2
    /\ inserted = 3 => (bucket_count = 4 /\ size = 3)

\* C9 amended: every one of the three inserts rehashes, bucket_count goes
\* 1 -> 2 -> 4 -> 8, and the final state has size() = 3, bucket_count = 8.
GrowthScenario ==
    /\ inserted = 0 => (bucket_count = 1 /\ size = 0)
    /\ inserted = 1 => (bucket_count = 2 /\ size = 1)
    /\ inserted = 2 => (bucket_count = 4 /\ size = 2)
    /\ inserted = 3 => (bucket_count = 8 /\ size = 3)

\* the state after the third insert
GrowthScenarioWitness ==
    /\ inserted = 3
    /\ last.op = "insert" /\ ~last.hit

\* C10: at(K) throws exactly when K is absent, returns the stored value of
\* K otherwise, changes nothing either way, and no other operation throws.
AtContract ==
    [][/\ \A k \in Keys :
              At(k) =>
                  /\ value_store' = value_store
                  /\ hashed_pointers' = hashed_pointers
                  /\ last'.threw <=> ~InStore(k)
                  /\ InStore(k) => last'.ret = StoredValue(k)
       /\ last'.threw => last'.op = "at"]_vars

\* at() threw on a container that holds other keys
AtContractWitness ==
    /\ last.op = "at" /\ last.threw
    /\ size >= 2
    /\ ~InStore(last.key)

\* C11: operator[](K) of an absent K appends (K, default value), returns the
\* default value and grows size() by exactly 1 under insert's append and
\* resize rules (index exact, load factor bound afterwards); operator[](K) of a
\* present K returns the stored value and changes nothing.
SubscriptContract ==
    [][\A k \in Keys :
           Subscript(k) =>
               IF InStore(k)
               THEN /\ value_store' = value_store
                    /\ hashed_pointers' = hashed_pointers
                    /\ last'.ret = StoredValue(k)
               ELSE /\ value_store' = Append(value_store, Pair(k, DefaultValue))
                    /\ Len(value_store') = Len(value_store) + 1
                    /\ last'.ret = DefaultValue
                    /\ FindIn(value_store', hashed_pointers', k) = Len(value_store)
                    /\ Len(hashed_pointers') =
                           IF REALLOCATION_FACTOR_ * (Len(value_store) + 1)
                                  >= INCREMENT_FACTOR_ * Len(hashed_pointers)
                           THEN INCREMENT_FACTOR_ * Len(hashed_pointers)
                           ELSE Len(hashed_pointers)
                    /\ BucketIndexExact'
                    /\ NoDuplicateKeys'
                    /\ BucketTotalIsSize'
                    /\ LoadFactorBound']_vars

\* operator[] stored a new key next to others and the index was rebuilt
SubscriptContractWitness ==
    /\ last.op = "subscript" /\ ~last.hit
    /\ last.ret = DefaultValue
    /\ size = NumKeys
    /\ bucket_count = 8
    /\ KeyAt(size - 1) = last.key

\* C12: clear() leaves size() = 0 (empty()) and exactly one empty bucket, and
\* the container is then like a default-constructed one: the inserts and
\* erases that follow leave the Dense Store, the buckets and bucket_count that
\* the same calls leave on a fresh container.
ClearIsFresh ==
    /\ last.op = "clear" =>
           /\ size = 0
           /\ bucket_count = 1
           /\ hashed_pointers[1] = <<>>
    /\ script.ok => <<value_store, hashed_pointers>> = Replay(script.calls)

\* after clear() of a grown container: inserts up to a rehash, then an erase
ClearIsFreshWitness ==
    /\ script.ok
    /\ Len(script.calls) = MaxScript
    /\ script.calls[MaxScript].op = "erase"
    /\ last.op = "erase" /\ last.hit
    /\ size = 1
    /\ bucket_count = 4

\* C13: the keys visited from begin() to end() are pairwise distinct and
\* their set is exactly the set of keys K with find(K) != end().
IterationComplete ==
    LET visited == IterateFrom(value_store, Begin)
    IN  /\ Len(visited) = size
        /\ \A i, j \in 1 .. Len(visited) : i # j => visited[i] # visited[j]
        /\ {visited[i] : i \in 1 .. Len(visited)} =
               {k \in Keys : FindIn(value_store, hashed_pointers, k)
                                 # End(value_store)}

\* two keys of one bucket are left after an erase moved an entry
IterationCompleteWitness ==
    /\ last.op = "erase" /\ last.hit
    /\ last.ret < size
    /\ size = 2
    /\ BucketOf(KeyAt(0), bucket_count) = BucketOf(KeyAt(1), bucket_count)

\* the Bucket Index with every bucket but number c (0-based) emptied
OnlyBucket(hp, c) == [d \in 1 .. Len(hp) |-> IF d = c + 1 THEN hp[d] ELSE <<>>]

\* C14: find(K) changes nothing and never throws; it returns a position
\* p < size() with key[p] = K when K is stored and size() (= end()) when it is
\* not, and the result depends on no bucket but hash(K) mod bucket_count.
FindContract ==
    [][\A k \in Keys :
           Find(k) =>
               /\ value_store' = value_store
               /\ hashed_pointers' = hashed_pointers
               /\ ~last'.threw
               /\ IF InStore(k)
                  THEN last'.ret < size /\ KeyAt(last'.ret) = k
                  ELSE last'.ret = End(value_store)
               /\ last'.ret =
                      FindIn(value_store,
                             OnlyBucket(hashed_pointers,
                                        BucketOf(k, bucket_count)),
                             k)]_vars

\* find() missed a key whose bucket holds another key
FindContractWitness ==
    /\ last.op = "find" /\ ~last.hit
    /\ last.ret = size
    /\ ~InStore(last.key)
    /\ Len(hashed_pointers[BucketOf(last.key, bucket_count) + 1]) >= 1
    /\ bucket_count >= 4

\* the keys of the source in the order of their first occurrence
RECURSIVE FirstKeys(_, _)
FirstKeys(src, i) ==
    IF i > Len(src) THEN <<>>
    ELSE IF \E j \in 1 .. (i - 1) : src[j].first = src[i].first
         THEN FirstKeys(src, i + 1)
         ELSE <<src[i].first>> \o FirstKeys(src, i + 1)

\* C15: range and initializer-list construction leave what inserting the
\* pairs in order into an empty container leaves: one entry per distinct key,
\* in the order of first occurrence, holding the first occurrence's value.
ConstructFirstWins ==
    /\ (last.op \in {"construct", "insert"} /\ Len(script.calls) = Len(source))
           => <<value_store, hashed_pointers>> = InsertAll(Fresh, source, 1)
    /\ last.op \in {"range", "list"} =>
        LET fk == FirstKeys(source, 1)
        IN  /\ <<value_store, hashed_pointers>> = InsertAll(Fresh, source, 1)
            /\ size = Cardinality({source[i].first : i \in 1 .. Len(source)})
            /\ Len(fk) = size
            /\ \A p \in 0 .. (size - 1) :
                   value_store[p + 1] = Pair(fk[p + 1], FirstWins(source)[fk[p + 1]])
            /\ \A k \in Keys :
                   LET p == FindIn(value_store, hashed_pointers, k)
                   IN  IF k \in DOMAIN FirstWins(source)
                       THEN p < size /\ value_store[p + 1] = Pair(k, FirstWins(source)[k])
                       ELSE p = size
            /\ BucketIndexExact
            /\ LoadFactorBound

\* a source that repeats its first key with another value
ConstructFirstWinsWitness ==
    /\ last.op = "range"
    /\ Len(source) = 3
    /\ source[1].first = source[3].first
    /\ source[1].second # source[3].second
    /\ source[2].first # source[1].first
    /\ size = 2


\* ---------------------------------------------------------------------------
\* The calls followed loop step by loop step.  frame holds the locals of the
\* running call: pc is the statement it is at, x the number of elements the
\* running range-for has passed, ret the iterator position the last find
\* returned, cont the statement the running find returns to.
\* ---------------------------------------------------------------------------

\* the statement a call of op starts at after its first find
FirstTest(op) ==
    CASE op = "insert" -> "ins_test"
      [] op = "erase"  -> "er_test"
      [] op = "find"   -> "find_ret"
      [] op = "at"     -> "at_test"
      [] OTHER         -> "sub_test"

LoopOps == {"insert", "erase", "find", "at", "subscript", "assign"}

\* a public member function is entered; all but clear() begin with find(key)
Enter(op, k, v) ==
    /\ frame.pc = "idle"
    /\ frame' = [IdleFrame(op) EXCEPT !.pc = IF op = "clear" THEN "clear"
                                              ELSE "find",
                                      !.key = k, !.val = v,
                                      !.cont = IF op = "clear" THEN "none"
                                               ELSE FirstTest(op),
                                      !.pre = <<value_store, hashed_pointers>>]
    /\ UNCHANGED <<value_store, hashed_pointers>>

\* the bucket find(key) walks
FindBucket == hashed_pointers[BucketOf(frame.key, Len(hashed_pointers)) + 1]

\* one turn of find's range-for that does not advance (a hand-written loop
\* whose increment was forgotten)
FindStep_NoAdvance ==
    /\ frame.pc = "find"
    /\ IF frame.x = Len(FindBucket)
       THEN frame' = [frame EXCEPT !.pc = frame.cont, !.cont = "none",
                                   !.ret = Len(value_store), !.x = 0]
       ELSE IF value_store[FindBucket[frame.x + 1] + 1].first = frame.key
       THEN frame' = [frame EXCEPT !.pc = frame.cont, !.cont = "none",
                                   !.ret = FindBucket[frame.x + 1], !.x = 0]
       ELSE frame' = frame
    /\ UNCHANGED <<value_store, hashed_pointers>>

\* one turn of find's range-for: the bucket is exhausted (end()), the element
\* at hand holds the key (its iterator), or the loop moves on
FindStep ==
    /\ frame.pc = "find"
    /\ IF frame.x = Len(FindBucket)
       THEN frame' = [frame EXCEPT !.pc = frame.cont, !.cont = "none",
                                   !.ret = Len(value_store), !.x = 0]
       ELSE IF value_store[FindBucket[frame.x + 1] + 1].first = frame.key
       THEN frame' = [frame EXCEPT !.pc = frame.cont, !.cont = "none",
                                   !.ret = FindBucket[frame.x + 1], !.x = 0]
       ELSE frame' = [frame EXCEPT !.x = frame.x + 1]
    /\ UNCHANGED <<value_store, hashed_pointers>>

\* find(key) called from the running member function, returning to c
CallFind(c) == [frame EXCEPT !.pc = "find", !.cont = c, !.x = 0]

Return == IdleFrame(frame.op)

\* the value insert() is handed: the caller's, or operator[]'s ValueType()
InsertedValue == IF frame.op = "insert" THEN frame.val ELSE DefaultValue

\* insert after its find: a present key returns; an absent one is appended,
\* indexed, and check_and_reallocate either returns or empties and resizes the
\* buckets and enters its loop
InsertTest ==
    /\ frame.pc = "ins_test"
    /\ IF frame.ret # Len(value_store)
       THEN /\ frame' = [frame EXCEPT !.pc = "ins_ret"]
            /\ UNCHANGED <<value_store, hashed_pointers>>
       ELSE LET vs == InsertStore(value_store, frame.key, InsertedValue)
                n  == Len(hashed_pointers)
                hp == [hashed_pointers EXCEPT ![BucketOf(frame.key, n) + 1] =
                                                  Append(@, Len(vs) - 1)]
            IN  /\ value_store' = vs
                /\ IF REALLOCATION_FACTOR_ * Len(vs) >= INCREMENT_FACTOR_ * n
                   THEN /\ hashed_pointers' =
                               [c \in 1..(n * INCREMENT_FACTOR_) |-> <<>>]
                        /\ frame' = [frame EXCEPT !.pc = "rehash", !.x = 0]
                   ELSE /\ hashed_pointers' = hp
                        /\ frame' = [frame EXCEPT !.pc = "ins_ret"]

\* one turn of check_and_reallocate's loop over the positions of the store
RehashStep ==
    /\ frame.pc = "rehash"
    /\ IF frame.x < Len(value_store)
       THEN LET c == CurPosition(value_store, frame.x, Len(hashed_pointers))
            IN  /\ hashed_pointers' =
                       [hashed_pointers EXCEPT ![c + 1] = Append(@, frame.x)]
                /\ frame' = [frame EXCEPT !.x = frame.x + 1]
       ELSE /\ frame' = [frame EXCEPT !.pc = "ins_ret", !.x = 0]
            /\ UNCHANGED hashed_pointers
    /\ UNCHANGED value_store

\* insert returns: to its caller, or into operator[]'s closing find
InsertReturn ==
    /\ frame.pc = "ins_ret"
    /\ frame' = IF frame.op = "insert" THEN Return ELSE CallFind("sub_ret")
    /\ UNCHANGED <<value_store, hashed_pointers>>

\* find() as a public call returns its iterator
FindReturn ==
    /\ frame.pc = "find_ret"
    /\ frame' = Return
    /\ UNCHANGED <<value_store, hashed_pointers>>

\* at after its first find: throw, or find again for the reference
AtTest ==
    /\ frame.pc = "at_test"
    /\ frame' = IF frame.ret = Len(value_store) THEN Return
                ELSE CallFind("at_ret")
    /\ UNCHANGED <<value_store, hashed_pointers>>

AtReturn ==
    /\ frame.pc = "at_ret"
    /\ frame' = Return
    /\ UNCHANGED <<value_store, hashed_pointers>>

\* operator[] after its first find: insert({key, ValueType()}) when absent,
\* then in both cases find again for the reference
SubscriptTest ==
    /\ frame.pc = "sub_test"
    /\ frame' = IF frame.ret = Len(value_store) THEN CallFind("ins_test")
                ELSE CallFind("sub_ret")
    /\ UNCHANGED <<value_store, hashed_pointers>>

\* operator[] returns its reference; an assignment writes through it
SubscriptReturn ==
    /\ frame.pc = "sub_ret"
    /\ frame' = Return
    /\ value_store' = IF frame.op = "assign" /\ frame.ret < Len(value_store)
                      THEN [value_store EXCEPT ![frame.ret + 1].second =
                                                   frame.val]
                      ELSE value_store
    /\ UNCHANGED hashed_pointers

\* erase after its first find: an absent key returns, a present one is found
\* again for curiter
EraseTest ==
    /\ frame.pc = "er_test"
    /\ frame' = IF frame.ret = Len(value_store) THEN Return
                ELSE CallFind("er_body")
    /\ UNCHANGED <<value_store, hashed_pointers>>

\* erase's straight-line part: the two hashes, the two positions, the swap
\* with the last pair and the pop
EraseBody ==
    /\ frame.pc = "er_body"
    /\ LET n == Len(hashed_pointers)
       IN  frame' = [frame EXCEPT
               !.pc = "loop1", !.x = 0,
               !.hash0 = BucketOf(frame.key, n),
               !.hash1 = BucketOf(value_store[Len(value_store)].first, n),
               !.index0 = frame.ret,
               !.index1 = Len(value_store) - 1]
    /\ value_store' = EraseStore(value_store, frame.ret)
    /\ UNCHANGED hashed_pointers

\* one turn of erase's first loop, over bucket hash0, looking for index0
EraseLoop1 ==
    /\ frame.pc = "loop1"
    /\ LET b == hashed_pointers[frame.hash0 + 1]
       IN  IF frame.x = Len(b)
           THEN /\ frame' = [frame EXCEPT !.pc = "loop2", !.x = 0]
                /\ UNCHANGED hashed_pointers
           ELSE IF b[frame.x + 1] = frame.index0
           THEN /\ hashed_pointers' =
                       [hashed_pointers EXCEPT ![frame.hash0 + 1] =
                           SubSeq([b EXCEPT ![frame.x + 1] = b[Len(b)]],
                                  1, Len(b) - 1)]
                /\ frame' = [frame EXCEPT !.pc = "loop2", !.x = 0]
           ELSE /\ frame' = [frame EXCEPT !.x = frame.x + 1]
                /\ UNCHANGED hashed_pointers
    /\ UNCHANGED value_store

\* one turn of erase's second loop, over bucket hash1, looking for index1
EraseLoop2 ==
    /\ frame.pc = "loop2"
    /\ LET b == hashed_pointers[frame.hash1 + 1]
       IN  IF frame.x = Len(b)
           THEN /\ frame' = Return
                /\ UNCHANGED hashed_pointers
           ELSE IF b[frame.x + 1] = frame.index1
           THEN /\ hashed_pointers' =
                       [hashed_pointers EXCEPT ![frame.hash1 + 1] =
                           [b EXCEPT ![frame.x + 1] = frame.index0]]
                /\ frame' = Return
           ELSE /\ frame' = [frame EXCEPT !.x = frame.x + 1]
                /\ UNCHANGED hashed_pointers
    /\ UNCHANGED value_store

\* clear() has no loop of its own
ClearBody ==
    /\ frame.pc = "clear"
    /\ value_store' = <<>>
    /\ hashed_pointers' = <<(<<>>)>>
    /\ frame' = Return

\* the running call takes its next step
Advance ==
    \/ FindStep
    \/ InsertTest
    \/ RehashStep
    \/ InsertReturn
    \/ FindReturn
    \/ AtTest
    \/ AtReturn
    \/ SubscriptTest
    \/ SubscriptReturn
    \/ EraseTest
    \/ EraseBody
    \/ EraseLoop1
    \/ EraseLoop2
    \/ ClearBody

\* a caller enters some public member function with some arguments
EnterCall ==
    /\ \E op \in LoopOps \cup {"clear"}, k \in Keys, v \in Values :
           Enter(op, IF op = "clear" THEN 0 ELSE k,
                     IF op \in {"insert", "assign"} THEN v ELSE 0)
    /\ UNCHANGED <<hasher, last, amap, inserted, script, source>>

AdvanceCall ==
    /\ Advance
    /\ UNCHANGED <<hasher, last, amap, inserted, script, source>>

NextLoops == EnterCall \/ AdvanceCall

SpecLoops == Init /\ [][NextLoops]_vars


\* the statements of a call in the order they run, counted from its return
Rank(f) ==
    LET R(pc) ==
            CASE pc = "idle"     -> 0
              [] pc = "clear"    -> 1
              [] pc = "find_ret" -> 1
              [] pc = "at_ret"   -> 1
              [] pc = "at_test"  -> 3
              [] pc = "loop2"    -> 1
              [] pc = "loop1"    -> 2
              [] pc = "er_body"  -> 3
              [] pc = "er_test"  -> 5
              [] pc = "sub_ret"  -> 1
              [] pc = "ins_ret"  -> 3
              [] pc = "rehash"   -> 4
              [] pc = "ins_test" -> 5
              [] pc = "sub_test" -> 7
              [] OTHER           -> 0
    IN  IF f.pc = "find" THEN R(f.cont) + 1 ELSE R(f.pc)

\* the turns the running loop has left at most
LoopLeft ==
    CASE frame.pc = "find"   -> Len(FindBucket) - frame.x
      [] frame.pc = "rehash" -> Len(value_store) - frame.x
      [] frame.pc = "loop1"  -> Len(hashed_pointers[frame.hash0 + 1]) - frame.x
      [] frame.pc = "loop2"  -> Len(hashed_pointers[frame.hash1 + 1]) - frame.x
      [] OTHER               -> 0

\* more than any loop's turns: no vector is longer than the number of keys
LoopBound == NumKeys + 2

Measure == Rank(frame) * LoopBound + LoopLeft

Running == frame.pc # "idle"

\* C16: with a hash function that returns, every public operation (insert with
\* its rehash, erase, find, at, operator[], clear) returns from every
\* reachable state: a running call always has a next step that changes the
\* state, and every step strictly lowers a natural number that is zero only
\* once the call has returned.
Terminates ==
    /\ [](Running => ENABLED <<AdvanceCall>>_vars)
    /\ [](Measure >= 0 /\ (Measure = 0 <=> ~Running))
    /\ [][Running => Measure' < Measure]_vars

\* an operator[] on an absent key has run its three finds, the append and a
\* rehash loop over three pairs, and returned
TerminatesWitness ==
    /\ frame.pc = "idle"
    /\ frame.op = "subscript"
    /\ Len(value_store) = 3
    /\ Len(hashed_pointers) = 8
    /\ \E c \in 1..Len(hashed_pointers) : Len(hashed_pointers[c]) >= 2

\* what the call as one step leaves, for the call whose locals are f
AtomicResult(f) ==
    LET st == <<f.pre[1], f.pre[2]>>
        p  == FindIn(st[1], st[2], f.key)
    IN  CASE f.op = "insert"    -> InsertStep(st, f.key, f.val)
          [] f.op = "erase"     -> EraseStep(st, f.key)
          [] f.op = "clear"     -> Fresh
          [] f.op = "subscript" -> InsertStep(st, f.key, DefaultValue)
          [] f.op = "assign"    ->
                 LET t == InsertStep(st, f.key, DefaultValue)
                     q == FindIn(t[1], t[2], f.key)
                 IN  <<[t[1] EXCEPT ![q + 1].second = f.val], t[2]>>
          [] OTHER              -> st

\* the call followed step by step returns with the store and the buckets the
\* call taken as one step leaves
StepwiseAgrees ==
    [][(Running /\ frame'.pc = "idle") =>
           <<value_store', hashed_pointers'>> = AtomicResult(frame)]_vars


\* how often position p occurs in bucket b
Count(b, p) == Cardinality({i \in 1 .. Len(b) : b[i] = p})

\* C17: when erase(K) removes the entry at position p0 and p0 is not the last
\* position, the entry that was last is afterwards stored at p0 and find of
\* its key returns p0; every entry at another position keeps its position,
\* key and value, and size drops by one.
SwapCompaction ==
    [][\A k \in Keys :
           LET p0 == FindIn(value_store, hashed_pointers, k)
               pLast == Len(value_store) - 1
           IN  (Erase(k) /\ InStore(k) /\ p0 # pLast) =>
                   /\ Len(value_store') = Len(value_store) - 1
                   /\ value_store'[p0 + 1] = value_store[pLast + 1]
                   /\ FindIn(value_store', hashed_pointers',
                             value_store[pLast + 1].first) = p0
                   /\ \A p \in (0 .. (pLast - 1)) \ {p0} :
                          value_store'[p + 1] = value_store[p + 1]]_vars

\* A, B, C at 0, 1, 2 and erase(B): C is at 1, A still at 0, size 2
SwapCompactionWitness ==
    /\ last.op = "erase" /\ last.hit
    /\ last.ret = 1
    /\ size = 2
    /\ \A p \in 0 .. 1 :
           FindIn(value_store, hashed_pointers, KeyAt(p)) = p

\* C18: erasing the last entry removes exactly one element, p0, from the
\* bucket of K, rewrites no bucket element, leaves every other bucket and
\* every remaining entry of the store unchanged, and the second loop finds
\* no element equal to the last position.
EraseLastEntry ==
    [][\A k \in Keys :
           LET p0 == FindIn(value_store, hashed_pointers, k)
               pLast == Len(value_store) - 1
               c == BucketOf(k, Len(hashed_pointers)) + 1
               b == hashed_pointers[c]
               b1 == RemoveIndex(b, p0)
           IN  (Erase(k) /\ InStore(k) /\ p0 = pLast) =>
                   /\ value_store' = SubSeq(value_store, 1, pLast)
                   /\ Len(hashed_pointers') = Len(hashed_pointers)
                   /\ \A d \in (1 .. Len(hashed_pointers)) \ {c} :
                          hashed_pointers'[d] = hashed_pointers[d]
                   /\ Len(hashed_pointers'[c]) = Len(b) - 1
                   /\ Count(hashed_pointers'[c], p0) = 0
                   /\ \A q \in (0 .. pLast) \ {p0} :
                          Count(hashed_pointers'[c], q) = Count(b, q)
                   /\ Count(b1, pLast) = 0
                   /\ hashed_pointers'[c] = b1]_vars

\* the last entry was erased from a bucket it shared with an earlier entry
EraseLastEntryWitness ==
    /\ last.op = "erase" /\ last.hit
    /\ last.ret = size
    /\ size >= 1
    /\ \E p \in 0 .. (size - 1) :
           BucketOf(KeyAt(p), bucket_count) = BucketOf(last.key, bucket_count)

\* C19: when the erased key and the last key share a bucket and the erased
\* entry is not the last one, that bucket afterwards contains p0 exactly
\* once, does not contain the old last position, and is shorter by one.
EraseSameBucket ==
    [][\A k \in Keys :
           LET p0 == FindIn(value_store, hashed_pointers, k)
               pLast == Len(value_store) - 1
               n == Len(hashed_pointers)
               hash0 == BucketOf(k, n)
               hash1 == BucketOf(value_store[pLast + 1].first, n)
           IN  (Erase(k) /\ InStore(k) /\ p0 # pLast /\ hash0 = hash1) =>
                   /\ Count(hashed_pointers'[hash0 + 1], p0) = 1
                   /\ Count(hashed_pointers'[hash0 + 1], pLast) = 0
                   /\ Len(hashed_pointers'[hash0 + 1]) =
                          Len(hashed_pointers[hash0 + 1]) - 1]_vars

\* an erase took an entry out of the bucket it shared with the last entry
EraseSameBucketWitness ==
    /\ last.op = "erase" /\ last.hit
    /\ last.ret < size
    /\ BucketOf(last.key, bucket_count) =
           BucketOf(KeyAt(last.ret), bucket_count)
    /\ Count(hashed_pointers[BucketOf(last.key, bucket_count) + 1],
             last.ret) = 1

\* C20: erase(K) for an absent key changes nothing: the store, every bucket,
\* bucket_count and size are the same before and after.
EraseAbsentNoOp ==
    [][\A k \in Keys :
           (Erase(k) /\ ~InStore(k)) =>
               /\ value_store' = value_store
               /\ hashed_pointers' = hashed_pointers
               /\ Len(hashed_pointers') = Len(hashed_pointers)
               /\ Len(value_store') = Len(value_store)]_vars

\* an erase missed in a container whose bucket for the key is not empty
EraseAbsentNoOpWitness ==
    /\ last.op = "erase" /\ ~last.hit
    /\ size >= 2
    /\ ~InStore(last.key)
    /\ Len(hashed_pointers[BucketOf(last.key, bucket_count) + 1]) >= 1


\* C21: insert of an absent key appends the new entry at the position that
\* was size() and leaves the key and value at every existing position as
\* they were, also when the insert rehashes; a rehash (any step other than
\* clear() that changes bucket_count) changes no existing entry of the store.
PositionStability ==
    [][/\ \A k \in Keys, v \in Values :
              (Insert(k, v) /\ ~InStore(k)) =>
                  /\ Len(value_store') = Len(value_store) + 1
                  /\ value_store'[Len(value_store) + 1] = Pair(k, v)
                  /\ \A p \in 0 .. (Len(value_store) - 1) :
                         value_store'[p + 1] = value_store[p + 1]
       /\ (Len(hashed_pointers') # Len(hashed_pointers)
               /\ last'.op # "clear") =>
              /\ Len(value_store') >= Len(value_store)
              /\ \A p \in 0 .. (Len(value_store) - 1) :
                     value_store'[p + 1] = value_store[p + 1]]_vars

\* an insert of a new key rehashed a container that already held two entries
PositionStabilityWitness ==
    /\ last.op = "insert" /\ ~last.hit
    /\ size = 3
    /\ bucket_count = 8
    /\ KeyAt(size - 1) = last.key
    /\ \A p \in 0 .. (size - 1) :
           FindIn(value_store, hashed_pointers, KeyAt(p)) = p


\* C22: bucket_count changes, other than by clear(), only in a call that
\* stored a new key (insert, or operator[] on an absent key); such a call
\* rehashes exactly when, after the append, 3 * size >= 2 * bucket_count, and
\* then bucket_count is twice what it was and bucket c holds exactly the
\* positions p of 0 .. size-1 with hash(key[p]) mod the new bucket_count = c,
\* each once; when the condition is false bucket_count stays.
RehashRule ==
    [][LET n == Len(hashed_pointers)
           m == Len(hashed_pointers')
           stored == /\ last'.op \in {"insert", "subscript", "assign"}
                     /\ ~last'.hit
                     /\ last' # last
       IN  /\ (m # n /\ last'.op # "clear") => stored
           /\ stored =>
                  /\ Len(value_store') = Len(value_store) + 1
                  /\ IF 3 * Len(value_store') >= 2 * n
                     THEN /\ m = 2 * n
                          /\ \A c \in 1 .. m :
                                 LET owned == {p \in 0 .. (Len(value_store') - 1) :
                                                  hasher[value_store'[p + 1].first]
                                                      % m = c - 1}
                                 IN  /\ Len(hashed_pointers'[c]) =
                                            Cardinality(owned)
                                     /\ \A p \in owned :
                                            Count(hashed_pointers'[c], p) = 1
                     ELSE m = n]_vars

\* operator[] on an absent key rehashed a container that held one entry
RehashRuleWitness ==
    /\ last.op = "subscript" /\ ~last.hit
    /\ size = 2
    /\ bucket_count = 4
    /\ KeyAt(1) = last.key


\* C23: across insert, erase, find, at and operator[] calls bucket_count
\* never decreases, and erase leaves it as it was, so a container emptied by
\* erase calls keeps the bucket_count it had grown to.
BucketCountNeverShrinks ==
    [][/\ last'.op # "clear" =>
              Len(hashed_pointers') >= Len(hashed_pointers)
       /\ \A k \in Keys :
              Erase(k) => Len(hashed_pointers') = Len(hashed_pointers)]_vars

\* three entries were stored and erased one by one: empty, with 8 buckets
BucketCountNeverShrinksWitness ==
    /\ last.op = "erase" /\ last.hit
    /\ size = 0
    /\ bucket_count = 8


RECURSIVE IsPowerOfTwo(_)
IsPowerOfTwo(n) ==
    IF n = 1 THEN TRUE
    ELSE IF n < 1 \/ n % 2 = 1 THEN FALSE
    ELSE IsPowerOfTwo(n \div 2)

\* C24: in every reachable state bucket_count is a power of two; it starts
\* at 1 and every step keeps it, doubles it, or resets it to 1.
BucketCountPowerOfTwo ==
    /\ bucket_count = 1
    /\ [](IsPowerOfTwo(bucket_count))
    /\ [][\/ Len(hashed_pointers') = Len(hashed_pointers)
          \/ Len(hashed_pointers') = 2 * Len(hashed_pointers)
          \/ Len(hashed_pointers') = 1 /\ last'.op = "clear"]_vars

\* a clear() reset a grown table to 1 bucket and two inserts doubled it twice
BucketCountPowerOfTwoWitness ==
    /\ script.ok
    /\ Len(script.calls) = 2
    /\ last.op = "insert"
    /\ bucket_count = 4


\* the step wrote v into the value at position p and nothing else: every
\* key, every other value, the store's length and every bucket are as they
\* were, and find of every key returns what it returned
OnlyValueWritten(p, v) ==
    /\ Len(value_store') = Len(value_store)
    /\ value_store'[p + 1] = Pair(value_store[p + 1].first, v)
    /\ \A q \in (0 .. (Len(value_store) - 1)) \ {p} :
           value_store'[q + 1] = value_store[q + 1]
    /\ hashed_pointers' = hashed_pointers
    /\ Len(hashed_pointers') = Len(hashed_pointers)
    /\ \A x \in Keys :
           FindIn(value_store', hashed_pointers', x) =
               FindIn(value_store, hashed_pointers, x)

\* C25: a value written through operator[] on a present key, or through a
\* dereferenced non-const iterator, changes the value of that one entry
\* only: keys, positions, buckets, bucket_count, size and the result of
\* find for every key stay.
ValueWriteFrame ==
    [][/\ \A k \in Keys, v \in Values :
              (SubscriptAssign(k, v) /\ InStore(k)) =>
                  OnlyValueWritten(FindIn(value_store, hashed_pointers, k), v)
       /\ \A index \in 0 .. (NumKeys - 1), v \in Values :
              IteratorAssign(index, v) => OnlyValueWritten(index, v)]_vars

\* a write through an iterator gave the first of three entries a value that
\* another entry does not have
ValueWriteFrameWitness ==
    /\ last.op = "iter_assign"
    /\ last.ret = 0
    /\ size = 3
    /\ value_store[1].second = last.val
    /\ \E p \in 1 .. 2 : value_store[p + 1].second # last.val


\* ---------------------------------------------------------------------------
\* Two containers with two hash functions: one container is driven by calls
\* that script records from its construction on, then a second container
\* is default-constructed with another Hash object and driven by the same
\* calls, frame.x of them so far.  frame.pre keeps of the first container
\* its store, its bucket_count and what its find returned for every key;
\* frame.ret is 1 when the two hash functions differ.
\* ---------------------------------------------------------------------------

InitHash ==
    /\ value_store = <<>>
    /\ hashed_pointers = <<(<<>>)>>
    /\ hasher \in [Keys -> HashValues]
    /\ last = Call("construct", 0, 0, FALSE, 0, FALSE)
    /\ amap = <<>>
    /\ inserted = 0
    /\ script = [ok |-> TRUE, calls |-> <<>>]
    /\ source = <<>>
    /\ frame = IdleFrame("construct")

\* a call c on the first container is recorded
Recorded(c) ==
    /\ frame.op = "construct"
    /\ Len(script.calls) < MaxScript
    /\ script' = [script EXCEPT !.calls = Append(@, c)]
    /\ UNCHANGED <<source, frame>>

\* the second container is default-constructed with its own Hash object
SecondContainer ==
    /\ frame.op = "construct"
    /\ hasher' \in [Keys -> HashValues]
    /\ frame' = [IdleFrame("replay") EXCEPT
                     !.pre = <<value_store, Len(hashed_pointers),
                               [k \in Keys |->
                                    FindIn(value_store, hashed_pointers, k)]>>,
                     !.ret = IF hasher' # hasher THEN 1 ELSE 0]
    /\ value_store' = <<>>
    /\ hashed_pointers' = <<(<<>>)>>
    /\ last' = Call("construct", 0, 0, FALSE, 0, FALSE)
    /\ amap' = <<>>
    /\ inserted' = 0
    /\ UNCHANGED <<script, source>>

\* the second container gets the next call the first one got
SameCall ==
    /\ frame.op = "replay"
    /\ frame.x < Len(script.calls)
    /\ LET c == script.calls[frame.x + 1]
       IN  \/ c.op = "insert" /\ Insert(c.key, c.val)
           \/ c.op = "erase" /\ Erase(c.key)
           \/ c.op = "subscript" /\ Subscript(c.key)
           \/ c.op = "clear" /\ Clear
    /\ frame' = [frame EXCEPT !.x = frame.x + 1]
    /\ UNCHANGED <<script, source>>

NextHash ==
    \/ \E k \in Keys, v \in Values :
           Insert(k, v) /\ Recorded([op |-> "insert", key |-> k, val |-> v])
    \/ \E k \in Keys :
           Erase(k) /\ Recorded([op |-> "erase", key |-> k, val |-> 0])
    \/ \E k \in Keys :
           Subscript(k) /\ Recorded([op |-> "subscript", key |-> k, val |-> 0])
    \/ Clear /\ Recorded([op |-> "clear", key |-> 0, val |-> 0])
    \/ SecondContainer
    \/ SameCall

SpecHash == InitHash /\ [][NextHash]_vars

\* the second container has got every call the first one got
BothDone == frame.op = "replay" /\ frame.x = Len(script.calls)

\* C26: the same calls of insert, erase, operator[] and clear() made on two
\* containers with two hash functions leave the same key and value at every
\* position, the same size and the same bucket_count, and so the same
\* result of find for every key and the same order of iteration.
HashIndependence ==
    BothDone =>
        /\ value_store = frame.pre[1]
        /\ size = Len(frame.pre[1])
        /\ bucket_count = frame.pre[2]
        /\ \A k \in Keys :
               FindIn(value_store, hashed_pointers, k) = frame.pre[3][k]
        /\ IterateFrom(value_store, Begin) = IterateFrom(frame.pre[1], Begin)

\* two new keys and an erase of the first were made on both containers,
\* whose hash functions differ and, in the second, collide on the two keys
HashIndependenceWitness ==
    /\ BothDone
    /\ frame.ret = 1
    /\ Len(script.calls) = 3
    /\ script.calls[3].op = "erase"
    /\ script.calls[1].key = script.calls[3].key
    /\ script.calls[2].key # script.calls[1].key
    /\ hasher[script.calls[1].key] = hasher[script.calls[2].key]
    /\ size = 1
    /\ bucket_count = 4


\* ---------------------------------------------------------------------------
\* The arithmetic of check_and_reallocate()'s loop body at the widths of its
\* types: frame.hash0 is the size_t the hash function returned, frame.index0
\* is new_size, frame.ret the int cur_position, frame.x the size_t that
\* hashed_pointers_[cur_position] indexes with.
\* ---------------------------------------------------------------------------

RECURSIVE Pow2(_)
Pow2(n) == IF n = 0 THEN 1 ELSE 2 * Pow2(n - 1)

\* the values of size_t
SizeValues == 0 .. (Pow2(SizeBits) - 1)

\* the values new_size takes: a doubled power of two that a vector of
\* vectors can still have as its size
NewSizes == {Pow2(e) : e \in 1 .. (SizeBits - 1)}

\* size_t to int: the value modulo 2^IntBits in the range of int
ToInt(u) ==
    LET m == u % Pow2(IntBits)
    IN  IF m >= Pow2(IntBits - 1) THEN m - Pow2(IntBits) ELSE m

\* int to size_t, as vector::operator[] takes its argument
ToSize(i) == i % Pow2(SizeBits)

InitInt ==
    /\ Init
    /\ hasher = [k \in Keys |-> 0]

\* the loop body is entered with some hash value and some new_size
HashKey ==
    /\ frame.pc = "idle"
    /\ \E h \in SizeValues, n \in NewSizes :
           frame' = [IdleFrame("rehash") EXCEPT !.pc = "cur_position",
                                                !.hash0 = h, !.index0 = n]

\* int cur_position = hasher_(value_store_[i].first) % new_size
StoreCurPosition ==
    /\ frame.pc = "cur_position"
    /\ frame' = [frame EXCEPT !.pc = "index",
                              !.ret = ToInt(frame.hash0 % frame.index0)]

\* hashed_pointers_[cur_position]
IndexBucket ==
    /\ frame.pc = "index"
    /\ frame' = [frame EXCEPT !.pc = "idle", !.x = ToSize(frame.ret)]

NextInt ==
    /\ HashKey \/ StoreCurPosition \/ IndexBucket
    /\ UNCHANGED <<value_store, hashed_pointers, hasher, last, amap,
                   inserted, script, source>>

SpecInt == InitInt /\ [][NextInt]_vars

\* C27: the bucket chosen for a position during a rehash, hash % new_size
\* stored in an int before it indexes, equals hash mod the new bucket_count
\* and is a bucket number in 0 .. new bucket_count - 1, for every hash value
\* and every bucket_count.
CurPositionExact ==
    /\ frame.pc = "index" =>
           /\ frame.ret = frame.hash0 % frame.index0
           /\ frame.ret >= 0
           /\ frame.ret < frame.index0
    /\ (frame.pc = "idle" /\ frame.op = "rehash") => frame.x < frame.index0

\* a cur_position that is negative, from a new_size above the largest int
CurPositionNegative ==
    /\ frame.pc = "idle" /\ frame.op = "rehash"
    /\ frame.ret < 0
    /\ frame.x >= frame.index0
    /\ frame.index0 > Pow2(IntBits - 1)

====
